---- MODULE Spec2Model ----
(***************************************************************************)
(* ACORD 25 certificate analyzer: the page's handleSubmit (src/app/        *)
(* page.tsx), the POST endpoint, truncatePDFToFivePagesBuffer and the      *)
(* retrying caller callGeminiUsingAiSdk (src/app/api/analyze/route.ts).    *)
(*                                                                         *)
(* Strings are sequences of tokens; String.prototype.includes is a         *)
(* contiguous-subsequence search over the tokens.  A PDF byte buffer is a  *)
(* record: the page labels it holds (0-based indices into the file the     *)
(* user selected), its size in bytes, whether PDFDocument.load accepts it, *)
(* and which serialization it is ("orig": the bytes as the user supplied   *)
(* them, "saved": a buffer produced by PDFDocument.save).                  *)
(***************************************************************************)
EXTENDS Integers, Sequences, FiniteSets, TLC

\* ------------------------------------------------------------------ bounds
\* Largest page count of a document a user can select.
MaxPages == 6

\* The largest number of calls of callGeminiUsingAiSdk in flight together.
MaxCalls == 2

\* --------------------------------------------------------------- constants
MAX_RETRIES == 3

maxBytesFiveMiB == 5 * 1024 * 1024

\* const maxBytes = 4 * 1024 * 1024; // 4 MB
maxBytes == 4 * 1024 * 1024

PDF_TYPE == "application/pdf"

\* JSON values.  A leaf is a tagged record: a string, a number or null; an
\* object is a record of its keys (an absent key is not in its DOMAIN); an
\* array is a sequence.  Undefined is JavaScript's undefined.
JStr(s) == [t |-> "string", v |-> s]
JNum(n) == [t |-> "number", v |-> n]
Null == [t |-> "null"]
Undefined == [t |-> "undefined"]

\* ----------------------------------------------------------------- strings
RECURSIVE includesAt(_, _, _)
includesAt(s, needle, i) ==
    IF i + Len(needle) - 1 > Len(s) THEN FALSE
    ELSE IF SubSeq(s, i, i + Len(needle) - 1) = needle THEN TRUE
    ELSE includesAt(s, needle, i + 1)

\* String.prototype.includes
includes(s, needle) == includesAt(s, needle, 1)

isSpace(c) == c = " "

\* String.prototype.trim
RECURSIVE trim(_)
trim(s) ==
    IF s = <<>> THEN s
    ELSE IF isSpace(Head(s)) THEN trim(Tail(s))
    ELSE IF isSpace(s[Len(s)]) THEN trim(SubSeq(s, 1, Len(s) - 1))
    ELSE s

\* An Error object: its name and its message.
MkError(msg) == [name |-> "Error", message |-> msg]

\* String(err) for an Error: the name alone when the message is empty.
StringOfError(err) ==
    IF err.message = <<>> THEN <<err.name>> ELSE <<err.name, ":">> \o err.message

\* ---------------------------------------------------------------- the schema
\* The result of a zod parse: the parsed value, or a failure.
Ok(v) == [ok |-> TRUE, value |-> v]
Bad == [ok |-> FALSE, value |-> Undefined]

\* obj[key], undefined when the key is absent.
Field(obj, key) == IF key \in DOMAIN obj THEN obj[key] ELSE Undefined

\* z.string()
zString(v) == IF v.t = "string" THEN Ok(v) ELSE Bad

zNullishString(v) ==
    IF v.t \in {"string", "null"} THEN Ok(v)
    ELSE IF v.t = "undefined" THEN Ok(Null)
    ELSE Bad

\* z.string().nullable(): a string or null; undefined is rejected.
zNullableString(v) == IF v.t \in {"string", "null"} THEN Ok(v) ELSE Bad

\* z.number()
zNumber(v) == IF v.t = "number" THEN Ok(v) ELSE Bad

zLiteralAnyString(v, lit) == IF v.t = "string" THEN Ok(v) ELSE Bad

\* z.literal(lit)
zLiteral(v, lit) == IF v = JStr(lit) THEN Ok(v) ELSE Bad

\* z.array(element).default([]) once the elements are parsed: `present` is
\* whether the key is there, `parsed` the parse of each element.
zArrayDefault(present, parsed) ==
    IF ~present THEN Ok(<<>>)
    ELSE IF \A i \in 1..Len(parsed) : parsed[i].ok
    THEN Ok([i \in 1..Len(parsed) |-> parsed[i].value])
    ELSE Bad

\* certificate_information: z.object({...})
zCertificateInformation(o) ==
    LET holder == zString(Field(o, "certificate_holder"))
        number == zString(Field(o, "certificate_number"))
        revision == zNullableString(Field(o, "revision_number"))
        issue == zString(Field(o, "issue_date"))
    IN IF holder.ok /\ number.ok /\ revision.ok /\ issue.ok
       THEN Ok([certificate_holder |-> holder.value, certificate_number |-> number.value,
                revision_number |-> revision.value, issue_date |-> issue.value])
       ELSE Bad

\* One element of insurers.
zInsurer(o) ==
    LET letter == zString(Field(o, "insurer_letter"))
        name == zString(Field(o, "insurer_name"))
        naic == zNullableString(Field(o, "naic_code"))
    IN IF letter.ok /\ name.ok /\ naic.ok
       THEN Ok([insurer_letter |-> letter.value, insurer_name |-> name.value,
                naic_code |-> naic.value])
       ELSE Bad

\* One element of coverages.
zCoverage(o) ==
    LET type == zString(Field(o, "limit_type"))
        value == zNumber(Field(o, "limit_value"))
    IN IF type.ok /\ value.ok
       THEN Ok([limit_type |-> type.value, limit_value |-> value.value])
       ELSE Bad

\* policy_information: z.object({...})
zPolicyInformation(o) ==
    LET type == zString(Field(o, "policy_type"))
        number == zString(Field(o, "policy_number"))
        effective == zString(Field(o, "effective_date"))
        expiry == zString(Field(o, "expiry_date"))
    IN IF type.ok /\ number.ok /\ effective.ok /\ expiry.ok
       THEN Ok([policy_type |-> type.value, policy_number |-> number.value,
                effective_date |-> effective.value, expiry_date |-> expiry.value])
       ELSE Bad

\* One element of policies.
zPolicy(o) ==
    LET info == IF "policy_information" \in DOMAIN o
                THEN zPolicyInformation(o.policy_information) ELSE Bad
        letter == zString(Field(o, "insurer_letter"))
        coverages == zArrayDefault("coverages" \in DOMAIN o,
                        IF "coverages" \in DOMAIN o
                        THEN [i \in 1..Len(o.coverages) |-> zCoverage(o.coverages[i])]
                        ELSE <<>>)
    IN IF info.ok /\ letter.ok /\ coverages.ok
       THEN Ok([policy_information |-> info.value, insurer_letter |-> letter.value,
                coverages |-> coverages.value])
       ELSE Bad

\* primary_details: z.object({...})
zPrimaryDetails(o) ==
    LET name == zNullableString(Field(o, "full_name"))
        email == zNullableString(Field(o, "email_address"))
        dba == zNullableString(Field(o, "doing_business_as"))
    IN IF name.ok /\ email.ok /\ dba.ok
       THEN Ok([full_name |-> name.value, email_address |-> email.value,
                doing_business_as |-> dba.value])
       ELSE Bad

\* contact_information: z.object({...})
zContactInformation(o) ==
    LET phone == zString(Field(o, "phone_number"))
        fax == zNullableString(Field(o, "fax_number"))
        license == zNullableString(Field(o, "license_number"))
    IN IF phone.ok /\ fax.ok /\ license.ok
       THEN Ok([phone_number |-> phone.value, fax_number |-> fax.value,
                license_number |-> license.value])
       ELSE Bad

\* address_details: z.object({...})
zAddressDetails(o) ==
    LET line1 == zString(Field(o, "address_line_1"))
        line2 == zNullableString(Field(o, "address_line_2"))
        line3 == zNullableString(Field(o, "address_line_3"))
        city == zString(Field(o, "city"))
        state == zString(Field(o, "state"))
        zip == zString(Field(o, "zip_code"))
        country == zLiteral(Field(o, "country"), "USA")
    IN IF line1.ok /\ line2.ok /\ line3.ok /\ city.ok /\ state.ok /\ zip.ok /\ country.ok
       THEN Ok([address_line_1 |-> line1.value, address_line_2 |-> line2.value,
                address_line_3 |-> line3.value, city |-> city.value, state |-> state.value,
                zip_code |-> zip.value, country |-> country.value])
       ELSE Bad

\* producer_information: z.object({...})
zProducerInformation(o) ==
    LET primary == IF "primary_details" \in DOMAIN o
                   THEN zPrimaryDetails(o.primary_details) ELSE Bad
        contact == IF "contact_information" \in DOMAIN o
                   THEN zContactInformation(o.contact_information) ELSE Bad
        address == IF "address_details" \in DOMAIN o
                   THEN zAddressDetails(o.address_details) ELSE Bad
    IN IF primary.ok /\ contact.ok /\ address.ok
       THEN Ok([primary_details |-> primary.value, contact_information |-> contact.value,
                address_details |-> address.value])
       ELSE Bad

\* AcordSchema: z.object({...}) over a candidate that is an object.
AcordSchema(o) ==
    LET certificate == IF "certificate_information" \in DOMAIN o
                       THEN zCertificateInformation(o.certificate_information) ELSE Bad
        insurers == zArrayDefault("insurers" \in DOMAIN o,
                        IF "insurers" \in DOMAIN o
                        THEN [i \in 1..Len(o.insurers) |-> zInsurer(o.insurers[i])]
                        ELSE <<>>)
        policies == zArrayDefault("policies" \in DOMAIN o,
                        IF "policies" \in DOMAIN o
                        THEN [i \in 1..Len(o.policies) |-> zPolicy(o.policies[i])]
                        ELSE <<>>)
        producer == IF "producer_information" \in DOMAIN o
                    THEN zProducerInformation(o.producer_information) ELSE Bad
    IN IF certificate.ok /\ insurers.ok /\ policies.ok /\ producer.ok
       THEN Ok([certificate_information |-> certificate.value, insurers |-> insurers.value,
                policies |-> policies.value, producer_information |-> producer.value])
       ELSE Bad

\* AcordSchema.nullable(): a top-level null is valid as it is.
AcordSchemaNullable(c) == IF c = Null THEN Ok(Null) ELSE AcordSchema(c)

\* ------------------------------------------------------------- the inputs
\* process.env.GEMINI_API_KEY: unset, or a string of characters.
Keys ==
    { [set |-> FALSE, val |-> <<>>],
      [set |-> TRUE, val |-> <<>>],
      [set |-> TRUE, val |-> <<" ", " ">>],
      [set |-> TRUE, val |-> <<"k", "e", "y">>] }

\* Upload sizes in bytes: a small file, exactly 4 MiB, one byte more.
Sizes == {1024, 4194304, 4194305}

\* The pages 0 .. n-1 of a document of n pages.
PagesOf(n) == [i \in 1..n |-> i - 1]

\* Page counts around the cap of five.
PageCounts == 4..MaxPages

\* The sizes tried for a document of n pages: the ceiling itself at the cap.
SizesOf(n) == IF n < 5 THEN {1024} ELSE IF n = 5 THEN Sizes ELSE {1024, 4194305}

Docs ==
    UNION { { [pages |-> PagesOf(n), size |-> s, ok |-> TRUE, ser |-> "orig"] :
                s \in SizesOf(n) } : n \in PageCounts }
    \cup
    { [pages |-> <<>>, size |-> s, ok |-> FALSE, ser |-> "orig"] : s \in {1024, 4194305} }

\* File objects: a name (stem and extension), a declared media type, bytes.
Files ==
    { [name |-> <<"doc", ".pdf">>, type |-> PDF_TYPE, bytes |-> d] : d \in Docs }
    \cup
    { [name |-> <<"SCAN", ".PDF">>, type |-> PDF_TYPE, bytes |-> d] :
        d \in {x \in Docs : x.ok /\ Len(x.pages) = 6 /\ x.size = 1024} }
    \cup
    { [name |-> <<"notes", ".txt">>, type |-> "text/plain", bytes |-> d] :
        d \in {x \in Docs : x.size = 1024 /\ Len(x.pages) = 6} }

NoFile == [name |-> <<>>, type |-> "", bytes |-> [pages |-> <<>>, size |-> 0, ok |-> FALSE, ser |-> "none"]]

\* The nullable leaves of AcordSchema, and how a candidate can carry one.
NullableLeaves ==
    {"revision_number", "naic_code", "full_name", "email_address", "doing_business_as",
     "fax_number", "license_number", "address_line_2", "address_line_3"}
LeafStates == {"string", "null", "absent"}

\* What a candidate can carry as the country: Undefined is an absent key.
CountryValues == {JStr("USA"), JStr("Canada"), Null, Undefined}

\* The limit_value of the first coverage entry.
LimitValues == {0, 1000000}

\* The record r without the key k.
Drop(r, k) == [x \in DOMAIN r \ {k} |-> r[x]]

\* The JSON the language model produces for a certificate: every field is
\* well-formed except as the parameters say.  `leaf` is carried as `st`,
\* the country is `country`, the list fields are there when `lists`, and the
\* first of the two coverage entries has the value `limit`.
Candidate(leaf, st, country, lists, limit) ==
    LET V(f) == IF f = leaf /\ st = "null" THEN Null ELSE JStr("text")
        S(r) == IF st = "absent" /\ leaf \in DOMAIN r THEN Drop(r, leaf) ELSE r
        address == [address_line_1 |-> JStr("text"),
                    address_line_2 |-> V("address_line_2"),
                    address_line_3 |-> V("address_line_3"),
                    city |-> JStr("text"), state |-> JStr("text"),
                    zip_code |-> JStr("text"), country |-> country]
        whole ==
            [certificate_information |->
                S([certificate_holder |-> JStr("text"), certificate_number |-> JStr("text"),
                   revision_number |-> V("revision_number"), issue_date |-> JStr("text")]),
             insurers |->
                << S([insurer_letter |-> JStr("A"), insurer_name |-> JStr("text"),
                      naic_code |-> V("naic_code")]) >>,
             policies |->
                << [policy_information |->
                        [policy_type |-> JStr("text"), policy_number |-> JStr("text"),
                         effective_date |-> JStr("text"), expiry_date |-> JStr("text")],
                    insurer_letter |-> JStr("A"),
                    coverages |->
                        << [limit_type |-> JStr("EACH OCCURRENCE"), limit_value |-> JNum(limit)],
                           [limit_type |-> JStr("GENERAL AGGREGATE"), limit_value |-> JNum(2000000)] >>] >>,
             producer_information |->
                [primary_details |->
                    S([full_name |-> V("full_name"), email_address |-> V("email_address"),
                       doing_business_as |-> V("doing_business_as")]),
                 contact_information |->
                    S([phone_number |-> JStr("text"), fax_number |-> V("fax_number"),
                       license_number |-> V("license_number")]),
                 address_details |->
                    S(IF country = Undefined THEN Drop(address, "country") ELSE address)]]
    IN IF lists THEN whole ELSE Drop(Drop(whole, "insurers"), "policies")

\* Every candidate the schema is checked against, the top-level null included.
SchemaCandidates ==
    { Candidate(leaf, st, country, lists, limit) :
        leaf \in NullableLeaves, st \in LeafStates, country \in CountryValues,
        lists \in BOOLEAN, limit \in LimitValues }
    \cup {Null}

\* The outputs the language model gives the endpoint: a complete certificate,
\* one with a coverage of 0, one of another country, one that leaves
\* revision_number out, and null.
CandidateFull == Candidate("revision_number", "string", JStr("USA"), TRUE, 1000000)
CandidateZero == Candidate("revision_number", "null", JStr("USA"), TRUE, 0)
CandidateCanada == Candidate("revision_number", "string", JStr("Canada"), TRUE, 1000000)
CandidateNoRevision == Candidate("revision_number", "absent", JStr("USA"), TRUE, 1000000)
ModelOutputs == {CandidateFull, CandidateZero, CandidateCanada, CandidateNoRevision, Null}

\* What generateObject throws when the output does not match the schema.
SchemaMismatch == MkError(<<"No object generated: response did not match schema.">>)

\* What generateObject throws for other reasons (the provider's reply is not
\* JSON at all, the provider fails).
ProviderErrors ==
    { SchemaMismatch,
      MkError(<<>>),
      MkError(<<"The document is", "not a valid PDF">>),
      MkError(<<"env", "GEMINI_API_KEY", "was rejected">>) }

\* Where pdf-lib can throw in a truncation of a document it can load.
FailPoints == {"none", "copy", "save"}

\* ------------------------------------------------------------------ pdf-lib
LoadError == MkError(<<"Failed to parse PDF document", "No PDF header found">>)
CopyError == MkError(<<"Expected instance of PDFDict">>)
SaveError == MkError(<<"Failed to serialize PDF document">>)

Returned(v) == [threw |-> FALSE, value |-> v, err |-> [name |-> "", message |-> <<>>]]
Threw(e) == [threw |-> TRUE, value |-> [pages |-> <<>>, size |-> 0, ok |-> FALSE, ser |-> "none"], err |-> e]

indicesAll(pageCount) == [i \in 1..pageCount |-> i - 1]

\* [0,1,2,3,4].filter(i => i < pageCount)
indicesBelow(pageCount) == SelectSeq(<<0, 1, 2, 3, 4>>, LAMBDA i : i < pageCount)

\* newPdf.copyPages(pdfDoc, indices); copy.forEach(p => newPdf.addPage(p))
copyPages(pdfDoc, indices) == [k \in 1..Len(indices) |-> pdfDoc.pages[indices[k] + 1]]

\* newPdf.save(): a fresh serialization, of a size pdf-lib decides.
save(pages, savedSize) == [pages |-> pages, size |-> savedSize, ok |-> TRUE, ser |-> "saved"]

withinCapFour(pageCount) == pageCount <= 4

\* if (pageCount <= 5) return inputBytes;   (route.ts)
withinCap(pageCount) == pageCount <= 5

\* if (pageCount > 5) { ... }                 (page.tsx)
overCap(pageCount) == pageCount > 5

\* truncatePDFToFivePagesBuffer(inputBytes): `fail` is where pdf-lib throws,
\* `savedSize` the size of what save() produces.
truncatePDFToFivePagesBuffer(inputBytes, fail, savedSize) ==
    IF ~inputBytes.ok THEN Threw(LoadError)
    ELSE IF withinCap(Len(inputBytes.pages)) THEN Returned(inputBytes)
    ELSE IF fail = "copy" THEN Threw(CopyError)
    ELSE IF fail = "save" THEN Threw(SaveError)
    ELSE Returned(save(copyPages(inputBytes, indicesBelow(Len(inputBytes.pages))), savedSize))

\* ----------------------------------------------------- callGeminiUsingAiSdk
keyMissingNoTrim(key) == (~key.set) \/ key.val = <<>>

\* !GEMINI_API_KEY || GEMINI_API_KEY.trim() === ''
keyMissing(key) == (~key.set) \/ key.val = <<>> \/ trim(key.val) = <<>>

KeyError == MkError(<<"GEMINI_API_KEY", "is not set in environment variables">>)

delayMsLinear(n) == n * 1000

\* Math.pow(2, attempt) * 1000
delayMs(n) == (2 ^ n) * 1000

mayRetryOffByOne(n) == n <= MAX_RETRIES

\* The loop condition and the guard of the backoff: attempt < MAX_RETRIES
mayRetry(n) == n < MAX_RETRIES

\* (lastError as Error | undefined)?.message || lastError, under String()
lastErrorText(err) == IF err.message # <<>> THEN err.message ELSE StringOfError(err)

ExhaustedErrorNoCount(err) ==
    MkError(<<"Failed to get response from Gemini via AI SDK:">> \o lastErrorText(err))

\* The Error thrown once the loop is left.
ExhaustedError(err) ==
    MkError(<<"Failed to get response from Gemini via AI SDK after",
              ToString(MAX_RETRIES), "attempts:">> \o lastErrorText(err))

\* ---------------------------------------------------------------- POST
\* The catch clause of POST: every Error thrown below it.
normalizedMessage(message) ==
    IF includes(message, <<"GEMINI_API_KEY">>) THEN <<"API key configuration error">>
    ELSE IF includes(message, <<"not a valid PDF">>) THEN <<"The uploaded file is not a valid PDF">>
    ELSE <<"Error processing PDF:">> \o message

\* ----------------------------------------------------------- handleSubmit
\* originalFile.name.replace(/\.pdf$/i, '')
stripPdfExtension(name) ==
    IF name # <<>> /\ name[Len(name)] \in {".pdf", ".PDF", ".Pdf"}
    THEN SubSeq(name, 1, Len(name) - 1)
    ELSE name

FileReturned(kind, f) == [threw |-> FALSE, kind |-> kind, file |-> f]
FileThrew == [threw |-> TRUE, kind |-> "threw", file |-> NoFile]

\* The inner try block of handleSubmit: it leaves the file as it is
\* ("identity"), builds the `.first5.pdf` file ("truncated"), or throws.
clientTruncate(file, fail, savedSize) ==
    IF ~file.bytes.ok THEN FileThrew
    ELSE IF ~overCap(Len(file.bytes.pages)) THEN FileReturned("identity", file)
    ELSE IF fail # "none" THEN FileThrew
    ELSE FileReturned("truncated",
            [name |-> stripPdfExtension(file.name) \o <<".first5.pdf">>,
             type |-> PDF_TYPE,
             bytes |-> save(copyPages(file.bytes, indicesBelow(Len(file.bytes.pages))), savedSize)])

fileToSendNoFallback(file, r) == r.file

\* `let fileToSend = originalFile` and the catch that keeps it on a throw.
fileToSendAfter(file, r) == IF r.threw THEN file ELSE r.file

\* --------------------------------------------------------------- the state
VARIABLES
    GEMINI_API_KEY, \* process.env.GEMINI_API_KEY, read once at module load
    json,           \* page state: the displayed result (Null when none)
    loading,        \* page state: a submission is running
    error,          \* page state: the displayed message (Null when none)
    fileName,       \* page state: the selected file's name ('' when none)
    files,          \* fileInputRef.current.files[0], NoFile when empty
    cpc,            \* where handleSubmit stands: idle, truncating, fetching
    originalFile,   \* handleSubmit's local
    req,            \* the request the endpoint is serving
    spc,            \* where POST stands
    processedBytes, \* POST's local
    attempt,        \* callGeminiUsingAiSdk's local
    lastError,      \* callGeminiUsingAiSdk's local
    resp,           \* the response POST returned
    sent,           \* history: the files handleSubmit put on the wire
    truncRuns,      \* history: runs of truncatePDFToFivePagesBuffer for req
    calls,          \* history: generateObject calls made for req
    waits,          \* history: backoff delays (ms) slept for req
    clientTrunc,    \* history: how the client-side truncation went
    outcome,        \* history: how the last handleSubmit ended
    submissions,    \* history: runs of handleSubmit that have not ended
    resetSince,     \* history: resetForm ran since handleSubmit last started
    candidate,      \* the output of the language model in the last generateObject call
    validated,      \* what AcordSchema.nullable() made of the candidate
    geminiCalls     \* the locals of each call of callGeminiUsingAiSdk in flight

pageVars == <<json, loading, error, fileName, files>>
clientVars == <<cpc, originalFile, sent, clientTrunc, outcome, submissions, resetSince>>
serverVars == <<req, spc, processedBytes, attempt, lastError, resp, truncRuns, calls, waits,
                candidate>>
vars == <<GEMINI_API_KEY, pageVars, clientVars, serverVars, validated, geminiCalls>>

NoBytes == NoFile.bytes
NoError == [name |-> "", message |-> <<>>]
NoReq == [src |-> "none", file |-> NoFile]

\* A string-valued slot that can also hold null / be absent.
NoStr == [null |-> TRUE, s |-> <<>>]
Str(s) == [null |-> FALSE, s |-> s]

NoResp == [status |-> 0, data |-> Undefined, error |-> NoStr]
NoOutcome == [kind |-> "none", via |-> "none", data |-> Undefined, message |-> NoStr]

\* NextResponse.json({ data }) and NextResponse.json({ error }, { status: 400 })
DataResponse(d) == [status |-> 200, data |-> d, error |-> NoStr]
ErrorResponse(msg) == [status |-> 400, data |-> Undefined, error |-> Str(msg)]

\* No generateObject call yet.
NoCandidate == Undefined
NoValidated == [ran |-> FALSE, ok |-> FALSE, value |-> Undefined]
Validated(r) == [ran |-> TRUE, ok |-> r.ok, value |-> r.value]

\* A call of callGeminiUsingAiSdk that has not started.
CallIds == 1..MaxCalls
NoResult == [kind |-> "none", value |-> Undefined, err |-> NoError]
NoCall == [pc |-> "idle", attempt |-> 0, lastError |-> NoError, throws |-> 0,
           waits |-> <<>>, result |-> NoResult]

InitButCandidate ==
    /\ GEMINI_API_KEY \in Keys
    /\ json = Null
    /\ loading = FALSE
    /\ error = NoStr
    /\ fileName = <<>>
    /\ files = NoFile
    /\ cpc = "idle"
    /\ originalFile = NoFile
    /\ req = NoReq
    /\ spc = "idle"
    /\ processedBytes = NoBytes
    /\ attempt = 0
    /\ lastError = NoError
    /\ resp = NoResp
    /\ sent = <<>>
    /\ truncRuns = 0
    /\ calls = <<>>
    /\ waits = <<>>
    /\ clientTrunc = "none"
    /\ outcome = NoOutcome
    /\ submissions = 0
    /\ resetSince = FALSE
    /\ validated = NoValidated
    /\ geminiCalls = [c \in CallIds |-> NoCall]

Init == InitButCandidate /\ candidate = NoCandidate

CatchResponse(e) == ErrorResponse(normalizedMessage(e.message))

\* ------------------------------------------------------------ the endpoint
\* A request reaches POST: its locals and the histories start afresh.
Receive(src, file) ==
    /\ req' = [src |-> src, file |-> file]
    /\ spc' = "received"
    /\ processedBytes' = NoBytes
    /\ attempt' = 0
    /\ lastError' = NoError
    /\ resp' = NoResp
    /\ truncRuns' = 0
    /\ calls' = <<>>
    /\ waits' = <<>>
    /\ candidate' = NoCandidate

Respond(r) == resp' = r /\ spc' = "responded"

\* Some other client posts straight to /api/analyze, with or without a file.
directRequest ==
    /\ spc \in {"idle", "responded"}
    /\ cpc = "idle"
    /\ \E f \in Files \cup {NoFile} : Receive("direct", f)
    /\ UNCHANGED <<GEMINI_API_KEY, geminiCalls, validated, pageVars, clientVars>>

uploadCheckNoSize(file) ==
    IF file = NoFile THEN <<"No file uploaded">>
    ELSE IF file.type # PDF_TYPE THEN <<"Uploaded file must be a PDF">>
    ELSE <<>>

\* The three checks POST makes on the upload (route.ts 141-154).
uploadCheck(file) ==
    IF file = NoFile THEN <<"No file uploaded">>
    ELSE IF file.type # PDF_TYPE THEN <<"Uploaded file must be a PDF">>
    ELSE IF file.bytes.size > maxBytes THEN <<"File too large. Max 4MB.">>
    ELSE <<>>

POST_validate ==
    /\ spc = "received"
    /\ IF uploadCheck(req.file) # <<>>
       THEN Respond(ErrorResponse(uploadCheck(req.file)))
       ELSE spc' = "truncate" /\ resp' = resp
    /\ UNCHANGED <<GEMINI_API_KEY, geminiCalls, validated, candidate, pageVars, clientVars, req, processedBytes,
                   attempt, lastError, truncRuns, calls, waits>>

POST_truncate ==
    /\ spc = "truncate"
    /\ \E fail \in FailPoints, savedSize \in Sizes :
         LET r == truncatePDFToFivePagesBuffer(req.file.bytes, fail, savedSize) IN
         /\ truncRuns' = truncRuns + 1
         /\ IF r.threw
            THEN Respond(CatchResponse(r.err)) /\ processedBytes' = processedBytes
            ELSE processedBytes' = r.value /\ spc' = "call" /\ resp' = resp
    /\ UNCHANGED <<GEMINI_API_KEY, geminiCalls, validated, candidate, pageVars, clientVars, req, attempt, lastError,
                   calls, waits>>

\* callGeminiUsingAiSdk up to its loop: the credential check.
callGemini_enter ==
    /\ spc = "call"
    /\ IF keyMissing(GEMINI_API_KEY)
       THEN Respond(CatchResponse(KeyError)) /\ UNCHANGED <<attempt, lastError>>
       ELSE attempt' = 0 /\ lastError' = NoError /\ spc' = "attempting" /\ resp' = resp
    /\ UNCHANGED <<GEMINI_API_KEY, geminiCalls, validated, candidate, pageVars, clientVars, req, processedBytes,
                   truncRuns, calls, waits>>

\* One generateObject call that resolves: the output of the language model
\* matches AcordSchema.nullable(), and `return object` gives the parsed value.
generateObject_returns ==
    /\ spc = "attempting"
    /\ mayRetry(attempt)
    /\ \E c \in ModelOutputs :
         /\ AcordSchemaNullable(c).ok
         /\ candidate' = c
         /\ calls' = Append(calls, [doc |-> processedBytes, threw |-> FALSE,
                                    object |-> AcordSchemaNullable(c).value])
         /\ Respond(DataResponse(AcordSchemaNullable(c).value))
    /\ UNCHANGED <<GEMINI_API_KEY, geminiCalls, validated, pageVars, clientVars, req, processedBytes,
                   attempt, lastError, truncRuns, waits>>

\* The ways one generateObject call rejects: the provider fails, or the
\* output of the language model does not match the schema.
Rejections ==
    { [err |-> e, candidate |-> NoCandidate] : e \in ProviderErrors }
    \cup
    { [err |-> SchemaMismatch, candidate |-> c] :
        c \in {x \in ModelOutputs : ~AcordSchemaNullable(x).ok} }

\* One generateObject call that rejects: the catch clause, the backoff or,
\* once the loop is left, the final throw caught by POST.
generateObject_throws ==
    /\ spc = "attempting"
    /\ mayRetry(attempt)
    /\ \E rej \in Rejections :
         LET err == rej.err IN
         /\ candidate' = rej.candidate
         /\ calls' = Append(calls, [doc |-> processedBytes, threw |-> TRUE, object |-> Undefined])
         /\ lastError' = err
         /\ attempt' = attempt + 1
         /\ IF mayRetry(attempt + 1)
            THEN /\ waits' = Append(waits, delayMs(attempt + 1))
                 /\ spc' = "backoff"
                 /\ resp' = resp
            ELSE /\ waits' = waits
                 /\ Respond(CatchResponse(ExhaustedError(err)))
    /\ UNCHANGED <<GEMINI_API_KEY, geminiCalls, validated, pageVars, clientVars, req, processedBytes, truncRuns>>

\* The setTimeout of the backoff fires.
backoff_elapsed ==
    /\ spc = "backoff"
    /\ spc' = "attempting"
    /\ UNCHANGED <<GEMINI_API_KEY, geminiCalls, validated, candidate, pageVars, clientVars, req, processedBytes,
                   attempt, lastError, resp, truncRuns, calls, waits>>

ServerNext ==
    \/ POST_validate
    \/ POST_truncate
    \/ callGemini_enter
    \/ generateObject_returns
    \/ generateObject_throws
    \/ backoff_elapsed

\* The endpoint under arbitrary requests.
NextApi == directRequest \/ ServerNext

SpecApi == Init /\ [][NextApi]_vars

\* ---------------------------------------------------------------- the page
\* setChosenFile(file): the name shown and the input's file list.
setChosenFile(file) ==
    /\ fileName' = file.name
    /\ files' = file

\* The user picks a file in the dialog, or cancels it (no file).
handleFileChange ==
    /\ \E f \in Files \cup {NoFile} : setChosenFile(f)
    /\ UNCHANGED <<GEMINI_API_KEY, geminiCalls, validated, json, loading, error, clientVars, serverVars>>

\* The user drops a file on the label: only a PDF is taken.
handleDrop ==
    /\ \E f \in Files : f.type = PDF_TYPE /\ setChosenFile(f)
    /\ UNCHANGED <<GEMINI_API_KEY, geminiCalls, validated, json, loading, error, clientVars, serverVars>>

\* The clear button, rendered while fileName is not empty.
resetForm_clear ==
    /\ fileName # <<>>
    /\ json' = Null
    /\ error' = NoStr
    /\ fileName' = <<>>
    /\ files' = NoFile
    /\ UNCHANGED <<GEMINI_API_KEY, geminiCalls, validated, loading, cpc, originalFile, sent, clientTrunc,
                   outcome, submissions, serverVars>>

resetForm == resetForm_clear /\ UNCHANGED resetSince

\* The same, with the history of resets kept.
resetForm_recorded == resetForm_clear /\ resetSince' = TRUE

\* An outcome, and what produced it: the local check, POST's response, or a
\* failure of the transport (fetch rejects, the body is not JSON).
Failure(via, msg) == [kind |-> "Failure", via |-> via, data |-> Undefined, message |-> Str(msg)]
Success(d) == [kind |-> "Success", via |-> "response", data |-> d, message |-> NoStr]

\* What fetch or res.json() can throw: an Error with a message, or a value
\* that is no Error (the catch then says 'Unknown error').
TransportMessages == {<<"Failed to fetch">>, <<"Unknown error">>}

submitEnabledWhileLoading(isLoading, name) == ~(name = <<>>)

\* The submit button is disabled while loading or without a file name.
submitEnabled(isLoading, name) == ~(isLoading \/ name = <<>>)

noFileSelectedNever(file) == FALSE

\* if (!originalFile)
noFileSelected(file) == file = NoFile

\* handleSubmit up to its first await: the state resets and the local check.
handleSubmit_start ==
    /\ json' = Null
    /\ resetSince' = FALSE
    /\ originalFile' = files
    /\ sent' = <<>>
    /\ clientTrunc' = "none"
    /\ IF noFileSelected(files)
       THEN /\ error' = Str(<<"Please select a PDF file">>)
            /\ loading' = FALSE
            /\ cpc' = "idle"
            /\ outcome' = Failure("local", <<"Please select a PDF file">>)
            /\ submissions' = submissions
       ELSE /\ error' = NoStr
            /\ loading' = TRUE
            /\ cpc' = "truncating"
            /\ outcome' = NoOutcome
            /\ submissions' = submissions + 1
    /\ UNCHANGED <<GEMINI_API_KEY, geminiCalls, validated, fileName, files, serverVars>>

\* The user presses the submit button, which is there to press while it is
\* not disabled.
handleSubmit ==
    /\ submitEnabled(loading, fileName)
    /\ handleSubmit_start

\* A submit event reaches the form's onSubmit although the button is
\* disabled (the event is dispatched on the form by a script or a test).
handleSubmit_dispatched ==
    /\ cpc = "idle"
    /\ ~submitEnabled(loading, fileName)
    /\ handleSubmit_start

\* The client-side truncation, formData.append and the fetch being issued.
handleSubmit_fetch ==
    /\ cpc = "truncating"
    /\ spc \in {"idle", "responded"}
    /\ \E fail \in FailPoints, savedSize \in Sizes :
         LET r == clientTruncate(originalFile, fail, savedSize)
             fileToSend == fileToSendAfter(originalFile, r)
         IN
         /\ clientTrunc' = r.kind
         /\ sent' = Append(sent, fileToSend)
         /\ Receive("page", fileToSend)
    /\ cpc' = "fetching"
    /\ UNCHANGED <<GEMINI_API_KEY, geminiCalls, validated, pageVars, originalFile, outcome, submissions,
                   resetSince>>

responseOutcomeNullIsError(r) ==
    IF ~r.error.null /\ r.error.s # <<>>
    THEN Failure("response", r.error.s)
    ELSE IF r.data \in {Undefined, Null}
    THEN Failure("response", <<"Unknown error">>)
    ELSE Success(r.data)

\* if (result.error) throw new Error(result.error); setJson(result.data ?? null)
responseOutcome(r) ==
    IF ~r.error.null /\ r.error.s # <<>>
    THEN Failure("response", r.error.s)
    ELSE Success(IF r.data = Undefined THEN Null ELSE r.data)

\* await res.json() resolves with POST's response.
handleSubmit_response ==
    /\ cpc = "fetching"
    /\ spc = "responded"
    /\ req.src = "page"
    /\ outcome' = responseOutcome(resp)
    /\ IF responseOutcome(resp).kind = "Failure"
       THEN error' = responseOutcome(resp).message /\ json' = json
       ELSE json' = responseOutcome(resp).data /\ error' = error
    /\ loading' = FALSE
    /\ cpc' = "idle"
    /\ submissions' = submissions - 1
    /\ UNCHANGED <<GEMINI_API_KEY, geminiCalls, validated, fileName, files, originalFile, sent, clientTrunc,
                   resetSince, serverVars>>

\* fetch rejects before the request reaches the endpoint, or res.json()
\* throws on a body that is not JSON: the outer catch.
handleSubmit_transportError ==
    /\ cpc = "fetching"
    /\ spc \in {"received", "responded"}
    /\ req.src = "page"
    /\ \E msg \in TransportMessages :
         /\ error' = Str(msg)
         /\ outcome' = Failure("transport", msg)
    /\ spc' = (IF spc = "received" THEN "idle" ELSE spc)
    /\ loading' = FALSE
    /\ cpc' = "idle"
    /\ submissions' = submissions - 1
    /\ UNCHANGED <<GEMINI_API_KEY, geminiCalls, validated, json, fileName, files, originalFile, sent,
                   clientTrunc, resetSince, req, processedBytes, attempt, lastError, resp,
                   truncRuns, calls, waits, candidate>>

PageNext ==
    \/ handleFileChange
    \/ handleDrop
    \/ resetForm
    \/ handleSubmit
    \/ handleSubmit_fetch
    \/ handleSubmit_response
    \/ handleSubmit_transportError

\* The page and the endpoint it posts to.
Next == PageNext \/ ServerNext

Spec == Init /\ [][Next]_vars

\* The same, with submit events that do not come from the button.
NextForm == Next \/ handleSubmit_dispatched

SpecForm == Init /\ [][NextForm]_vars

\* The page and the endpoint, with the history of resets kept.
NextReset ==
    \/ handleFileChange
    \/ handleDrop
    \/ resetForm_recorded
    \/ handleSubmit
    \/ handleSubmit_fetch
    \/ handleSubmit_response
    \/ handleSubmit_transportError
    \/ ServerNext

SpecReset == Init /\ [][NextReset]_vars

\* -------------------------------------------------- the schema on its own
\* AcordSchema.nullable() applied to each candidate.
InitSchema == InitButCandidate /\ candidate \in SchemaCandidates

validateCandidate ==
    /\ ~validated.ran
    /\ validated' = Validated(AcordSchemaNullable(candidate))
    /\ UNCHANGED <<GEMINI_API_KEY, geminiCalls, candidate, pageVars, clientVars, req, spc,
                   processedBytes, attempt, lastError, resp, truncRuns, calls, waits>>

NextSchema == validateCandidate

SpecSchema == InitSchema /\ [][NextSchema]_vars

\* ------------------------------------- callGeminiUsingAiSdk, calls together
\* Each request runs its own call of the async function; the calls interleave
\* at their awaits.  geminiCalls[c] holds the locals of call c: where it
\* stands, `attempt`, `lastError`, the delays it slept, what it settled with.
ReturnedObject(object) == [kind |-> "returned", value |-> object, err |-> NoError]
ThrewError(e) == [kind |-> "threw", value |-> Undefined, err |-> e]

\* The catch clause of one call, and what follows it: the backoff, or the
\* throw after the loop.
afterCatch(call, err) ==
    LET n == call.attempt + 1 IN
    [call EXCEPT !.lastError = err,
                 !.attempt = n,
                 !.throws = @ + 1,
                 !.waits = IF mayRetry(n) THEN Append(@, delayMs(n)) ELSE @,
                 !.pc = IF mayRetry(n) THEN "backoff" ELSE "done",
                 !.result = IF mayRetry(n) THEN @ ELSE ThrewError(ExhaustedError(err))]

callCatchesSharedAttempt(all, c, err) ==
    [d \in DOMAIN all |->
        IF d = c THEN afterCatch(all[c], err)
        ELSE [all[d] EXCEPT !.attempt = @ + 1]]

\* `attempt` and `lastError` are declared inside the function: the catch of
\* call c writes the locals of call c.
callCatches(all, c, err) == [all EXCEPT ![c] = afterCatch(all[c], err)]

call_enter(c) ==
    /\ geminiCalls[c].pc = "idle"
    /\ geminiCalls' =
          [geminiCalls EXCEPT ![c] =
              IF keyMissing(GEMINI_API_KEY)
              THEN [@ EXCEPT !.pc = "done", !.result = ThrewError(KeyError)]
              ELSE [@ EXCEPT !.pc = "attempting"]]
    /\ UNCHANGED <<GEMINI_API_KEY, validated, pageVars, clientVars, serverVars>>

call_returns(c) ==
    /\ geminiCalls[c].pc = "attempting"
    /\ mayRetry(geminiCalls[c].attempt)
    /\ \E out \in ModelOutputs :
         /\ AcordSchemaNullable(out).ok
         /\ geminiCalls' =
               [geminiCalls EXCEPT ![c] =
                   [@ EXCEPT !.pc = "done",
                             !.result = ReturnedObject(AcordSchemaNullable(out).value)]]
    /\ UNCHANGED <<GEMINI_API_KEY, validated, pageVars, clientVars, serverVars>>

call_throws(c) ==
    /\ geminiCalls[c].pc = "attempting"
    /\ mayRetry(geminiCalls[c].attempt)
    /\ \E rej \in Rejections : geminiCalls' = callCatches(geminiCalls, c, rej.err)
    /\ UNCHANGED <<GEMINI_API_KEY, validated, pageVars, clientVars, serverVars>>

\* The timer of call c fires; a timer holds up nothing but its own call.
call_backoff_elapsed(c) ==
    /\ geminiCalls[c].pc = "backoff"
    /\ geminiCalls' = [geminiCalls EXCEPT ![c] = [@ EXCEPT !.pc = "attempting"]]
    /\ UNCHANGED <<GEMINI_API_KEY, validated, pageVars, clientVars, serverVars>>

call_step(c) ==
    \/ call_enter(c)
    \/ call_returns(c)
    \/ call_throws(c)
    \/ call_backoff_elapsed(c)

NextConc == \E c \in CallIds : call_step(c)

SpecConc == Init /\ [][NextConc]_vars

\* =============================================================== properties
AllThrew == \A i \in 1..Len(calls) : calls[i].threw

RECURSIVE SumSeq(_)
SumSeq(q) == IF q = <<>> THEN 0 ELSE Head(q) + SumSeq(Tail(q))

\* The message names the attempt count: "... after 3 attempts: ...".
ReferencesAttemptCount(msg) == includes(msg, <<"3", "attempts:">>)

IsErrorResponse(r) == r.status = 400 /\ r.data = Undefined /\ ~r.error.null /\ r.error.s # <<>>

\* C1: while every generateObject call of a request has failed, at most 3
\* calls are made; the n-th failure (n = 1, 2) is followed by a wait of 2^n
\* seconds before the next call; the third failure is followed by no wait
\* and ends the request with an error response; the loop never stops on a
\* failure before the third.
C1_ThreeAttemptsWithBackoff ==
    (AllThrew /\ spc \in {"attempting", "backoff", "responded"}) =>
        /\ Len(calls) <= 3
        /\ \A n \in 1..Len(waits) : waits[n] = (2 ^ n) * 1000
        /\ spc = "backoff" => (Len(calls) \in {1, 2} /\ Len(waits) = Len(calls))
        /\ spc = "attempting" => (Len(calls) \in {0, 1, 2} /\ Len(waits) = Len(calls))
        /\ (spc = "responded" /\ calls # <<>>) =>
              /\ Len(calls) = 3
              /\ waits = <<2000, 4000>>
              /\ IsErrorResponse(resp)

C1_Witness ==
    /\ spc = "responded"
    /\ Len(calls) = 3
    /\ AllThrew
    /\ waits = <<2000, 4000>>
    /\ IsErrorResponse(resp)

\* C2: a generateObject call that returns is the last call of its request:
\* it is call k <= 3, the k-1 calls before it threw, the response is the
\* data response carrying exactly the object it returned, and the waits
\* slept are 2 s, 4 s, ... for the k-1 failures (6 s in all when k = 3).
C2_FirstSuccessEndsTheCall ==
    \A k \in 1..Len(calls) :
        ~calls[k].threw =>
            /\ k = Len(calls)
            /\ k <= 3
            /\ \A i \in 1..(k - 1) : calls[i].threw
            /\ spc = "responded"
            /\ resp = [status |-> 200, data |-> calls[k].object, error |-> NoStr]
            /\ Len(waits) = k - 1
            /\ \A n \in 1..(k - 1) : waits[n] = (2 ^ n) * 1000
            /\ k = 3 => SumSeq(waits) = 2000 + 4000

C2_Witness ==
    /\ spc = "responded"
    /\ Len(calls) = 3
    /\ calls[1].threw /\ calls[2].threw /\ ~calls[3].threw
    /\ calls[3].object = CandidateZero
    /\ resp.data = CandidateZero
    /\ SumSeq(waits) = 6000

\* C3 as stated: after three failed calls the response is an error whose
\* message names the attempt count, whatever the provider's error says.
C3_Original ==
    (spc = "responded" /\ Len(calls) = 3 /\ AllThrew) =>
        (IsErrorResponse(resp) /\ ReferencesAttemptCount(resp.error.s))

\* C3 amended: after three failed calls the response is a 400 error; its
\* message names the attempt count and ends with the last error's text,
\* unless that text contains GEMINI_API_KEY (the message is then 'API key
\* configuration error') or 'not a valid PDF' (then 'The uploaded file is
\* not a valid PDF').
C3_Amended ==
    (spc = "responded" /\ Len(calls) = 3 /\ AllThrew) =>
        /\ IsErrorResponse(resp)
        /\ LET text == IF lastError.message = <<>> THEN <<"Error">> ELSE lastError.message IN
           IF includes(text, <<"GEMINI_API_KEY">>)
           THEN resp.error.s = <<"API key configuration error">>
           ELSE IF includes(text, <<"not a valid PDF">>)
           THEN resp.error.s = <<"The uploaded file is not a valid PDF">>
           ELSE /\ ReferencesAttemptCount(resp.error.s)
                /\ SubSeq(resp.error.s, Len(resp.error.s) - Len(text) + 1, Len(resp.error.s)) = text

C3_Witness ==
    /\ spc = "responded"
    /\ Len(calls) = 3
    /\ AllThrew
    /\ lastError.message = <<>>
    /\ ReferencesAttemptCount(resp.error.s)

\* C4: a generateObject call that returns null ends the request at once (no
\* further call), the response is { data: null } with status 200 and no
\* error field, and the page, once it has handled that response, shows no
\* error and no result: Success(null).
C4_NullIsSuccess ==
    /\ \A k \in 1..Len(calls) :
          (~calls[k].threw /\ calls[k].object = Null) =>
              /\ k = Len(calls)
              /\ spc = "responded"
              /\ resp = [status |-> 200, data |-> Null, error |-> NoStr]
    /\ (cpc = "idle" /\ outcome.via = "response" /\ resp.status = 200 /\ resp.data = Null) =>
          /\ outcome = [kind |-> "Success", via |-> "response", data |-> Null, message |-> NoStr]
          /\ json = Null
          /\ error = NoStr
          /\ ~loading

C4_Witness ==
    /\ cpc = "idle"
    /\ outcome.via = "response"
    /\ outcome.kind = "Success"
    /\ Len(calls) = 2
    /\ calls[1].threw
    /\ calls[2].object = Null
    /\ resp.data = Null
    /\ json = Null

\* The credential is unset, empty, or nothing but whitespace.
KeyBlank ==
    (~GEMINI_API_KEY.set) \/ (\A i \in 1..Len(GEMINI_API_KEY.val) : GEMINI_API_KEY.val[i] = " ")

\* C5: with a blank credential no generateObject call and no backoff wait
\* ever happens; every response is a 400 whose message does not contain the
\* credential's name, and a request that reaches callGeminiUsingAiSdk is
\* answered 'API key configuration error'.
C5_BlankCredential ==
    KeyBlank =>
        /\ calls = <<>>
        /\ waits = <<>>
        /\ spc \notin {"attempting", "backoff"}
        /\ spc = "responded" =>
              /\ IsErrorResponse(resp)
              /\ ~includes(resp.error.s, <<"GEMINI_API_KEY">>)
        /\ (spc = "responded" /\ processedBytes # NoBytes) =>
              resp.error.s = <<"API key configuration error">>

C5_Witness ==
    /\ GEMINI_API_KEY = [set |-> TRUE, val |-> <<" ", " ">>]
    /\ spc = "responded"
    /\ processedBytes # NoBytes
    /\ resp.error.s = <<"API key configuration error">>

\* The upload is one POST must reject: not declared a PDF, or over 4 MiB.
Rejectable(file) ==
    file # NoFile /\ (file.type # "application/pdf" \/ file.bytes.size > 4194304)

\* C6: a request whose upload is not declared application/pdf or is larger
\* than 4 MiB never reaches the truncation or a generateObject call, and its
\* response is a 400 with an error message; the size rejection is given to
\* no upload of 4 MiB or less.
C6_RejectedBeforeProcessing ==
    /\ (spc # "idle" /\ Rejectable(req.file)) =>
          /\ truncRuns = 0
          /\ calls = <<>>
          /\ processedBytes = NoBytes
          /\ spc \in {"received", "responded"}
          /\ spc = "responded" => IsErrorResponse(resp)
    /\ (spc = "responded" /\ resp.error = Str(<<"File too large. Max 4MB.">>)) =>
          req.file.bytes.size > 4194304

C6_Witness ==
    /\ spc = "responded"
    /\ req.file.type = "application/pdf"
    /\ req.file.bytes.size = 4194305
    /\ req.file.bytes.ok
    /\ resp = [status |-> 400, data |-> Undefined, error |-> Str(<<"File too large. Max 4MB.">>)]
    /\ truncRuns = 0

\* A submission of the page that has put its request on the wire.
Submitted == cpc = "fetching" \/ (cpc = "idle" /\ outcome.via \in {"response", "transport"})

TooLargeFailure ==
    [kind |-> "Failure", via |-> "response", data |-> Undefined,
     message |-> Str(<<"File too large. Max 4MB.">>)]

\* C7 as stated: a submission of a selected PDF of more than 4 MiB makes no
\* generateObject call and, its response handled, ends in the file-too-large
\* Failure.
C7_Original ==
    (Submitted /\ originalFile.type = "application/pdf" /\ originalFile.bytes.size > 4194304) =>
        /\ calls = <<>>
        /\ outcome.via = "response" => outcome = TooLargeFailure

\* C7 amended: the 4 MiB limit applies to the file that is sent.  A
\* submission of a selected PDF makes no generateObject call and, its
\* response handled, ends in the file-too-large Failure whenever the file
\* sent is over 4 MiB; and the file sent is the selected file itself when
\* that has at most 5 pages or the client-side truncation threw.
C7_Amended ==
    (Submitted /\ originalFile.type = "application/pdf") =>
        /\ (originalFile.bytes.size > 4194304 /\ clientTrunc \in {"identity", "threw"}) =>
              sent[1].bytes.size > 4194304
        /\ sent[1].bytes.size > 4194304 =>
              /\ calls = <<>>
              /\ truncRuns = 0
              /\ outcome.via = "response" => outcome = TooLargeFailure

C7_Witness ==
    /\ Submitted
    /\ originalFile.type = "application/pdf"
    /\ originalFile.bytes.size > 4194304
    /\ clientTrunc = "truncated"
    /\ sent[1].bytes.size > 4194304
    /\ outcome = TooLargeFailure

\* C8: the bytes POST hands on are the uploaded bytes themselves when the
\* upload has at most 5 pages, and otherwise a saved document holding
\* exactly pages 0..4 of the upload in order; likewise the file the page
\* sends is the selected file itself when that has at most 5 pages, and a
\* file of exactly its pages 0..4 when the client-side truncation built one;
\* the selected file and the upload stay what they were.
C8_TruncationResult ==
    /\ processedBytes # NoBytes =>
          /\ req.file.bytes.ok
          /\ IF Len(req.file.bytes.pages) <= 5
             THEN processedBytes = req.file.bytes
             ELSE /\ processedBytes.pages = SubSeq(req.file.bytes.pages, 1, 5)
                  /\ Len(processedBytes.pages) = 5
                  /\ processedBytes.ok
                  /\ processedBytes.ser = "saved"
    /\ sent # <<>> =>
          /\ originalFile \in Files
          /\ (originalFile.bytes.ok /\ Len(originalFile.bytes.pages) <= 5) =>
                (clientTrunc = "identity" /\ sent[1] = originalFile)
          /\ (originalFile.bytes.ok /\ Len(originalFile.bytes.pages) > 5) =>
                clientTrunc \in {"truncated", "threw"}
          /\ clientTrunc = "truncated" =>
                /\ sent[1].bytes.pages = SubSeq(originalFile.bytes.pages, 1, 5)
                /\ Len(sent[1].bytes.pages) = 5
                /\ sent[1].bytes.ok
                /\ sent[1].type = "application/pdf"
          /\ (req.src = "page" /\ spc # "idle") => req.file = sent[1]

C8_Witness ==
    /\ req.src = "page"
    /\ clientTrunc = "threw"
    /\ Len(req.file.bytes.pages) = 6
    /\ processedBytes.pages = <<0, 1, 2, 3, 4>>
    /\ processedBytes.ser = "saved"

\* C9: when the client-side truncation throws, handleSubmit goes on: it
\* issues exactly one request, carrying the selected file unchanged, and
\* ends through the response or the transport, never through the local
\* failure; a file pdf-lib cannot load always takes this path.
C9_ClientTruncationFallback ==
    /\ clientTrunc = "threw" =>
          /\ Len(sent) = 1
          /\ sent[1] = originalFile
          /\ originalFile \in Files
          /\ cpc \in {"fetching", "idle"}
          /\ cpc = "fetching" => req = [src |-> "page", file |-> originalFile]
          /\ cpc = "idle" => outcome.via \in {"response", "transport"}
    /\ (sent # <<>> /\ ~originalFile.bytes.ok) => clientTrunc = "threw"
    /\ Len(sent) <= 1

C9_Witness ==
    /\ clientTrunc = "threw"
    /\ originalFile.bytes.ok
    /\ Len(originalFile.bytes.pages) = 6
    /\ sent = <<originalFile>>
    /\ cpc = "idle"
    /\ outcome.kind = "Success"
    /\ outcome.data = CandidateFull

\* The upload passes POST's media-type and size checks.
Passes(file) ==
    file # NoFile /\ file.type = "application/pdf" /\ file.bytes.size <= 4194304

\* C10: for a request that passes the checks the truncation has run exactly
\* once before callGeminiUsingAiSdk is entered, whoever sent the request;
\* every generateObject call carries the truncation's result, a loadable
\* document of at most 5 pages; and an upload pdf-lib cannot load gets an
\* error response and no generateObject call.
C10_ServerTruncatesFirst ==
    /\ (spc \in {"call", "attempting", "backoff"} \/ calls # <<>>) =>
          /\ Passes(req.file)
          /\ truncRuns = 1
          /\ processedBytes # NoBytes
    /\ \A i \in 1..Len(calls) :
          /\ calls[i].doc = processedBytes
          /\ calls[i].doc.ok
          /\ Len(calls[i].doc.pages) <= 5
    /\ (Passes(req.file) /\ spc = "responded") => truncRuns = 1
    /\ (Passes(req.file) /\ ~req.file.bytes.ok /\ spc # "idle") =>
          /\ calls = <<>>
          /\ spc \in {"received", "truncate", "responded"}
          /\ spc = "responded" => IsErrorResponse(resp)

C10_Witness ==
    /\ req.src = "direct"
    /\ Len(req.file.bytes.pages) = 6
    /\ Len(calls) = 1
    /\ calls[1].doc.pages = <<0, 1, 2, 3, 4>>

\* The objects of `obj` that the schema gives the nullable leaf `leaf` to.
LeafHolders(obj, leaf) ==
    IF leaf = "revision_number" THEN {obj.certificate_information}
    ELSE IF leaf = "naic_code"
    THEN (IF "insurers" \in DOMAIN obj
          THEN {obj.insurers[i] : i \in 1..Len(obj.insurers)} ELSE {})
    ELSE IF leaf \in {"full_name", "email_address", "doing_business_as"}
    THEN {obj.producer_information.primary_details}
    ELSE IF leaf \in {"fax_number", "license_number"}
    THEN {obj.producer_information.contact_information}
    ELSE {obj.producer_information.address_details}

\* The key `leaf` is missing from an object that should carry it.
LeafAbsent(obj, leaf) == \E h \in LeafHolders(obj, leaf) : leaf \notin DOMAIN h

\* Every object that should carry `leaf` carries it, as null.
LeafIsNull(obj, leaf) ==
    \A h \in LeafHolders(obj, leaf) : leaf \in DOMAIN h /\ h[leaf] = Null

\* C11 as stated: a candidate that is well-formed except that a nullable
\* leaf is absent validates, and the validated result carries null there.
C11_Original ==
    validated.ran =>
        \A leaf \in NullableLeaves, lists \in BOOLEAN, limit \in LimitValues :
            (/\ candidate = Candidate(leaf, "absent", JStr("USA"), lists, limit)
             /\ LeafAbsent(candidate, leaf))
            => (validated.ok /\ LeafIsNull(validated.value, leaf))

\* C11 as amended: a candidate that is well-formed and carries a nullable
\* leaf as null validates, and the validated result carries null for that
\* field; a candidate from which the key of a nullable leaf is absent fails
\* validation (nullable is not optional).
C11_Amended ==
    validated.ran =>
        \A leaf \in NullableLeaves, lists \in BOOLEAN, limit \in LimitValues :
            /\ candidate = Candidate(leaf, "null", JStr("USA"), lists, limit)
                => (validated.ok /\ LeafIsNull(validated.value, leaf))
            /\ (/\ candidate = Candidate(leaf, "absent", JStr("USA"), lists, limit)
                /\ LeafAbsent(candidate, leaf))
                => (~validated.ok /\ validated.value = Undefined)

C11_Witness ==
    /\ validated.ran
    /\ candidate = Candidate("fax_number", "absent", JStr("USA"), TRUE, 1000000)
    /\ "fax_number" \notin DOMAIN candidate.producer_information.contact_information
    /\ ~validated.ok

\* The candidate is an object whose country is there and is not 'USA'.
HasOtherCountry(c) ==
    /\ c \notin {NoCandidate, Null}
    /\ "country" \in DOMAIN c.producer_information.address_details
    /\ c.producer_information.address_details.country # JStr("USA")

\* C12: when the language model's output is an object whose country is not
\* 'USA', the generateObject call throws the schema mismatch; the throw is
\* counted as a failed attempt (followed by the backoff, or by the error
\* response once the attempts are used up); and no object that is returned,
\* in a call or in a response, has a country other than 'USA'.
C12_WrongCountryIsRejected ==
    /\ HasOtherCountry(candidate) =>
          /\ calls # <<>>
          /\ calls[Len(calls)].threw
          /\ lastError = SchemaMismatch
          /\ attempt = Len(calls)
          /\ IF attempt < 3
             THEN /\ spc \in {"backoff", "attempting"}
                  /\ Len(waits) = attempt
                  /\ resp = NoResp
             ELSE /\ spc = "responded"
                  /\ IsErrorResponse(resp)
    /\ \A k \in 1..Len(calls) :
          (~calls[k].threw /\ calls[k].object # Null) =>
              calls[k].object.producer_information.address_details.country = JStr("USA")
    /\ (resp.status = 200 /\ resp.data # Null) =>
          /\ ~HasOtherCountry(candidate)
          /\ resp.data.producer_information.address_details.country = JStr("USA")

C12_Witness ==
    /\ HasOtherCountry(candidate)
    /\ candidate.producer_information.address_details.country = JStr("Canada")
    /\ spc = "backoff"
    /\ attempt = 1
    /\ waits = <<2000>>

\* The coverage entries of an extraction result.
CoveragesOf(object) ==
    UNION { {object.policies[p].coverages[i] : i \in 1..Len(object.policies[p].coverages)} :
              p \in 1..Len(object.policies) }

\* C13: no extraction result in a data response holds a coverage entry
\* whose limit_value is 0.
C13_NoZeroCoverage ==
    (resp.status = 200 /\ resp.data # Null) =>
        \A cov \in CoveragesOf(resp.data) : cov.limit_value # JNum(0)

\* C14: a run of handleSubmit with no file selected ends at once as the
\* Failure 'Please select a PDF file': the message is shown, loading is
\* false, nothing is put on the wire and the endpoint is left as it was; and
\* as long as that is the last outcome, nothing has been sent for it.
C14_NoFileStep ==
    (files = NoFile /\ handleSubmit_start) =>
        /\ outcome' = [kind |-> "Failure", via |-> "local", data |-> Undefined,
                       message |-> Str(<<"Please select a PDF file">>)]
        /\ error' = Str(<<"Please select a PDF file">>)
        /\ json' = Null
        /\ loading' = FALSE
        /\ cpc' = "idle"
        /\ sent' = <<>>
        /\ submissions' = submissions
        /\ UNCHANGED serverVars

C14_NoFileState ==
    outcome.via = "local" =>
        /\ originalFile = NoFile
        /\ outcome.kind = "Failure"
        /\ outcome.message = Str(<<"Please select a PDF file">>)
        /\ sent = <<>>
        /\ cpc = "idle"
        /\ ~loading
        /\ submissions = 0
        /\ json = Null

C14_NoFileIsLocalFailure == []C14_NoFileState /\ [][C14_NoFileStep]_vars

C14_Witness ==
    /\ files = NoFile
    /\ originalFile = NoFile
    /\ outcome.kind = "Failure"
    /\ outcome.via = "local"
    /\ error = Str(<<"Please select a PDF file">>)
    /\ ~loading
    /\ sent = <<>>
    /\ spc = "idle"

\* The delays a call has slept after n failed attempts.
ExpectedWaits(n) == IF n = 0 THEN <<>> ELSE IF n = 1 THEN <<2000>> ELSE <<2000, 4000>>

\* C15: each call of callGeminiUsingAiSdk counts its own failures (its
\* attempt is the number of its own throws, at most 3), sleeps its own
\* delays (2000 then 4000) and settles with its own last error; a step of
\* one call changes no other call's locals; and while a call waits in
\* backoff every other call that has not settled can take its next step.
C15_CallState ==
    \A c \in CallIds :
        /\ geminiCalls[c].attempt = geminiCalls[c].throws
        /\ geminiCalls[c].attempt <= 3
        /\ geminiCalls[c].waits = ExpectedWaits(geminiCalls[c].throws)
        /\ geminiCalls[c].pc = "backoff" => geminiCalls[c].throws \in {1, 2}
        /\ (geminiCalls[c].result.kind = "threw" /\ geminiCalls[c].throws > 0) =>
              /\ geminiCalls[c].throws = 3
              /\ geminiCalls[c].pc = "done"
              /\ includes(geminiCalls[c].result.err.message,
                          lastErrorText(geminiCalls[c].lastError))
        /\ geminiCalls[c].result.kind = "returned" =>
              /\ geminiCalls[c].pc = "done"
              /\ geminiCalls[c].throws < 3
        /\ \A d \in CallIds \ {c} :
              (geminiCalls[c].pc = "backoff" /\ geminiCalls[d].pc # "done") =>
                  ENABLED call_step(d)

C15_CallStep ==
    \A c \in CallIds :
        geminiCalls'[c] # geminiCalls[c] =>
            \A d \in CallIds \ {c} : geminiCalls'[d] = geminiCalls[d]

C15_CallsAreIndependent == []C15_CallState /\ [][C15_CallStep]_vars

C15_Witness ==
    /\ geminiCalls[1].pc = "backoff"
    /\ geminiCalls[1].attempt = 1
    /\ geminiCalls[1].waits = <<2000>>
    /\ geminiCalls[2].pc = "done"
    /\ geminiCalls[2].throws = 3
    /\ geminiCalls[2].waits = <<2000, 4000>>
    /\ geminiCalls[2].result.kind = "threw"
    /\ geminiCalls[2].lastError # geminiCalls[1].lastError

\* C16: a result and an error are never shown together; a submission that
\* ends in a Failure, whatever produced it, ends with loading false, the
\* Failure's non-empty message shown and no result; and there is never more
\* than one submission in flight: loading is true for as long as one is, and
\* at most one file is put on the wire for it.
C16_PageState ==
    /\ json = Null \/ error = NoStr
    /\ submissions \in {0, 1}
    /\ submissions = 1 <=> cpc # "idle"
    /\ cpc # "idle" => loading
    /\ Len(sent) <= 1

C16_FailureStep ==
    (outcome' # outcome /\ outcome'.kind = "Failure") =>
        /\ outcome'.via \in {"local", "transport", "response"}
        /\ loading' = FALSE
        /\ error' = outcome'.message
        /\ ~error'.null
        /\ error'.s # <<>>
        /\ json' = Null
        /\ cpc' = "idle"
        /\ submissions' = 0

C16_OneOutcomeShown == []C16_PageState /\ [][C16_FailureStep]_vars

C16_Witness ==
    /\ outcome.kind = "Failure"
    /\ outcome.via = "response"
    /\ error = outcome.message
    /\ error.s = <<"File too large. Max 4MB.">>
    /\ json = Null
    /\ ~loading
    /\ submissions = 0
    /\ fileName # <<>>

\* C17: once resetForm has run, no result and no error of a submission
\* started before it is shown.
C17_ResetDiscardsOutcome == resetSince => (json = Null /\ error = NoStr)

====
